---- MODULE Spec2Model ----
(***************************************************************************)
(* Buddy page allocator of xx_alloc: the complete binary tree over a flat  *)
(* node array with its bitmap (src/src/bintree/tree.rs) and the page       *)
(* allocator built on it (src/src/buddy/buddy_allocator.rs).               *)
(*                                                                         *)
(* The constants (def.rs), the bitmap (treemap.rs) and the alignment       *)
(* macros (lib.rs) are not part of the sources at hand; they are modelled  *)
(* from the specification, the constants scaled down: a page is 8 bytes    *)
(* and the tree holds at most 8 pages (15 nodes, 4 levels).  With 8 = 2^3  *)
(* pages of 2^3 bytes the halving loop of get_level loses no bits, as with *)
(* the real page size.                                                     *)
(*                                                                         *)
(* Two specifications: Spec drives the allocator (new, init, allocate,     *)
(* deallocate); TreeSpec drives the tree on its own (new, init, use_page,  *)
(* unuse_page, use_mem, unuse_mem, find) over small trees, so that every   *)
(* bitmap its public operations can produce is visited.                    *)
(*                                                                         *)
(* The arena is zeroed before init, as in the repository's test and doc    *)
(* example, so that BinTree::init starts counting levels from 0; init runs *)
(* once.  The caller releases only blocks it holds, with the size it asked *)
(* for; what deallocate does with other arguments is stated by applying    *)
(* the operator deallocate to the reachable states.                        *)
(***************************************************************************)
EXTENDS Integers, Sequences, FiniteSets, Bags, TLC

\* ------------------------------------------------------------------------
\* Program constants (def.rs, scaled)
\* ------------------------------------------------------------------------
PAGE_SIZE == 8
MIN_SIZE == PAGE_SIZE
MAX_PAGES == 8
MAX_SIZE == MAX_PAGES * PAGE_SIZE
MAX_NODES == 2 * MAX_PAGES - 1
\* size_of::<BinTree>() in bytes: two whole pages of metadata
SIZE_OF_BINTREE == 16
\* width of usize in bits, scaled down from 64: unchecked arithmetic wraps
USIZE_BITS == 16

\* ------------------------------------------------------------------------
\* Bounds of the model
\* ------------------------------------------------------------------------
\* arenas of 0 .. MaxArenaPages whole pages are offered to init
MaxArenaPages == 9
\* requested sizes: 0 .. MaxReqPages whole pages (and two sizes that are
\* no whole number of pages)
MaxReqPages == 9
\* requested alignments: 2^0 .. 2^MaxAlignShift pages
MaxAlignShift == 1
\* number of blocks that may be live at once
MaxLive == 2
\* trees of 0 .. MaxTreePages whole pages are built when the tree is driven
\* on its own
MaxTreePages == 3

\* ------------------------------------------------------------------------
\* Alignment macros (lib.rs) and arithmetic helpers
\* ------------------------------------------------------------------------
align_down(x, a) == x - (x % a)
align_up(x, a) == align_down(x + a - 1, a)
is_align(x, a) == x % a = 0

RECURSIVE Pow2(_)
Pow2(k) == IF k <= 0 THEN 1 ELSE 2 * Pow2(k - 1)

is_power_of_two(x) == \E k \in 0..MAX_NODES : x = Pow2(k)

\* ------------------------------------------------------------------------
\* Bitmap (treemap.rs): TRUE = used
\* ------------------------------------------------------------------------
NodeIdx == 0..(MAX_NODES - 1)

TreeMap_new == [i \in NodeIdx |-> FALSE]
set_bit(bm, i) == [bm EXCEPT ![i] = TRUE]
unset_bit(bm, i) == [bm EXCEPT ![i] = FALSE]
is_empty(bm, i) == ~bm[i]
set_bit_all(bm) == [i \in DOMAIN bm |-> TRUE]

\* ------------------------------------------------------------------------
\* BinTree (tree.rs): a record [level, nodes, bitmap]
\* ------------------------------------------------------------------------
BinTree_new == [level |-> 0, nodes |-> [i \in NodeIdx |-> 0], bitmap |-> TreeMap_new]

\* (a halving loop that runs while index_size >= MIN_SIZE)
RECURSIVE get_level_loop_ge(_, _)
get_level_loop_ge(index_size, level) ==
    IF index_size >= MIN_SIZE
    THEN get_level_loop_ge(index_size \div 2, level - 1)
    ELSE level

RECURSIVE get_level_loop(_, _)
get_level_loop(index_size, level) ==
    IF index_size > MIN_SIZE
    THEN get_level_loop(index_size \div 2, level - 1)
    ELSE level

\* level of the blocks of `size` bytes; 0 or negative when the loop runs
\* past the root (the usize then underflows here or in get_index)
get_level(t, size) == get_level_loop(align_down(size, MIN_SIZE), t.level)

get_index(level) == Pow2(level - 1) - 1

get_value(t, idx) == t.nodes[idx]

max_node(t) == get_index(t.level + 1) - 1

find_left_child(idx) == idx * 2 + 1
find_right_child(idx) == idx * 2 + 2
find_parent(idx) == ((idx + 1) \div 2) - 1

can_use(t, index, counts) ==
    \A i \in 0..(counts - 1) : is_empty(t.bitmap, index + i)

can_free(t, index, counts) ==
    \A i \in 0..(counts - 1) : ~is_empty(t.bitmap, index + i)

\* the leftmost leaf below idx (the loop of find and allocate)
RECURSIVE left_leaf_of(_, _)
left_leaf_of(t, idx) ==
    IF find_left_child(idx) <= max_node(t)
    THEN left_leaf_of(t, find_left_child(idx))
    ELSE idx

use_page(t, idx) == [t EXCEPT !.bitmap = set_bit(t.bitmap, idx)]
unuse_page(t, idx) == [t EXCEPT !.bitmap = unset_bit(t.bitmap, idx)]

\* (a row that is one bit too wide: for i in 0..=2^level)
mark_row_wide(bm, left_leaf, level, v) ==
    [i \in DOMAIN bm |->
        IF i >= left_leaf /\ i <= left_leaf + Pow2(level) THEN v ELSE bm[i]]

\* one row of use_mem / unuse_mem: bits left_leaf .. left_leaf + 2^level - 1
mark_row(bm, left_leaf, level, v) ==
    [i \in DOMAIN bm |->
        IF i >= left_leaf /\ i < left_leaf + Pow2(level) THEN v ELSE bm[i]]

RECURSIVE mark_mem(_, _, _, _)
mark_mem(t, left_leaf, level, v) ==
    IF left_leaf <= max_node(t)
    THEN mark_mem([t EXCEPT !.bitmap = mark_row(t.bitmap, left_leaf, level, v)],
                  find_left_child(left_leaf), level + 1, v)
    ELSE t

use_mem(t, idx) == mark_mem(t, idx, 0, TRUE)
unuse_mem(t, idx) == mark_mem(t, idx, 0, FALSE)

\* BinTree::init -----------------------------------------------------------
RECURSIVE round_leaf(_)
round_leaf(tmp_leaf) ==
    IF is_power_of_two(tmp_leaf) THEN tmp_leaf ELSE round_leaf(tmp_leaf + 1)

\* inner loop: one level, striding over [root, root + tmp_size)
RECURSIVE init_stride(_, _, _, _, _, _)
init_stride(t, root, tmp_size, cur_size, current, counts) ==
    IF current < root + tmp_size
    THEN init_stride([t EXCEPT !.nodes[counts] = current,
                               !.bitmap = unset_bit(t.bitmap, counts)],
                     root, tmp_size, cur_size, current + cur_size, counts + 1)
    ELSE [tree |-> t, counts |-> counts]

\* outer loop: level after level until node_counts nodes are placed
RECURSIVE init_fill(_, _, _, _, _, _)
init_fill(t, root, tmp_size, node_counts, cur_size, counts) ==
    IF counts < node_counts
    THEN LET s == init_stride(t, root, tmp_size, cur_size, root, counts)
         IN init_fill([s.tree EXCEPT !.level = s.tree.level + 1],
                      root, tmp_size, node_counts, cur_size \div 2, s.counts)
    ELSE t

\* (an init that leaves the padding leaves free)
init_padding_none(t, leaf_counts, tmp_leaf) == t

\* marks the leaves idx + leaf_counts .. idx + tmp_leaf - 1 used
init_padding(t, leaf_counts, tmp_leaf) ==
    IF tmp_leaf > leaf_counts
    THEN LET level == get_level(t, PAGE_SIZE)
             idx == get_index(level)
         IN [t EXCEPT !.bitmap =
                [i \in DOMAIN t.bitmap |->
                    IF i >= idx + leaf_counts /\ i < idx + tmp_leaf
                    THEN TRUE ELSE t.bitmap[i]]]
    ELSE t

\* (an init that reports the rounded leaf count)
BinTree_init_rounded(t, root, size) ==
    LET mem_size == align_down(size, MIN_SIZE)
        leaf_counts == mem_size \div MIN_SIZE
    IN IF leaf_counts = 0
       THEN [res |-> "NotEnough", val |-> 0, tree |-> t]
       ELSE LET tmp_leaf == round_leaf(leaf_counts)
                tmp_size == mem_size + (tmp_leaf - leaf_counts) * PAGE_SIZE
                t1 == [t EXCEPT !.bitmap = set_bit_all(t.bitmap)]
                node_counts == tmp_leaf * 2 - 1
                t2 == init_fill(t1, root, tmp_size, node_counts, tmp_size, 0)
                t3 == init_padding(t2, leaf_counts, tmp_leaf)
            IN [res |-> "Ok", val |-> tmp_leaf, tree |-> t3]

BinTree_init(t, root, size) ==
    LET mem_size == align_down(size, MIN_SIZE)
        leaf_counts == mem_size \div MIN_SIZE
    IN IF leaf_counts = 0
       THEN [res |-> "NotEnough", val |-> 0, tree |-> t]
       ELSE LET tmp_leaf == round_leaf(leaf_counts)
                tmp_size == mem_size + (tmp_leaf - leaf_counts) * PAGE_SIZE
                t1 == [t EXCEPT !.bitmap = set_bit_all(t.bitmap)]
                node_counts == tmp_leaf * 2 - 1
                t2 == init_fill(t1, root, tmp_size, node_counts, tmp_size, 0)
                t3 == init_padding(t2, leaf_counts, tmp_leaf)
            IN [res |-> "Ok", val |-> leaf_counts, tree |-> t3]

\* BinTree::find -----------------------------------------------------------
\* the test of one candidate: its own bit, then the run of leaves below it
find_check(t, size, is_used, idx) ==
    /\ is_empty(t.bitmap, idx) # is_used
    /\ LET left_leaf == left_leaf_of(t, idx)
           page_counts == size \div MIN_SIZE
       IN \/ is_used /\ can_free(t, left_leaf, page_counts)
          \/ ~is_used /\ can_use(t, left_leaf, page_counts)

\* (a scan without the break: it always runs to its last index)
find_loop_no_break(t, size, is_used, level, idx) ==
    IF idx < get_index(level + 1) - 1
    THEN get_index(level + 1) - 1
    ELSE idx

\* while idx < get_index(level + 1) - 1 { if check { break }; idx += 1 }
RECURSIVE find_loop(_, _, _, _, _)
find_loop(t, size, is_used, level, idx) ==
    IF idx < get_index(level + 1) - 1
    THEN IF find_check(t, size, is_used, idx)
         THEN idx
         ELSE find_loop(t, size, is_used, level, idx + 1)
    ELSE idx

\* res "Overflow": get_level ran past the root, get_index(level) underflows
find(t, size, is_used) ==
    IF size > MAX_SIZE
    THEN [res |-> "WrongSize", idx |-> 0]
    ELSE LET level == get_level(t, size)
         IN IF level < 1
            THEN [res |-> "Overflow", idx |-> 0]
            ELSE LET idx == find_loop(t, size, is_used, level, get_index(level))
                 IN IF idx = get_index(level + 1)
                    THEN [res |-> "NotFound", idx |-> 0]
                    ELSE [res |-> "Ok", idx |-> idx]

\* BinTree::find_match -----------------------------------------------------
\* (a find_match that takes find's candidate without comparing addresses)
match_loop_first(t, idx, max_idx, value) ==
    IF idx < max_idx
    THEN [res |-> "Ok", idx |-> idx]
    ELSE [res |-> "NotFound", idx |-> 0]

RECURSIVE match_loop(_, _, _, _)
match_loop(t, idx, max_idx, value) ==
    IF idx < max_idx
    THEN IF get_value(t, idx) = value
         THEN [res |-> "Ok", idx |-> idx]
         ELSE match_loop(t, idx + 1, max_idx, value)
    ELSE [res |-> "NotFound", idx |-> 0]

\* checks: the build has overflow checks (debug), so usize underflow panics.
\* Without them the arithmetic wraps: at level 0 both get_index(0) and
\* get_index(1) - 1 wrap to usize::MAX, find answers Ok(usize::MAX) and the
\* scan loop is skipped (NotFound); below level 0 find answers NotFound and
\* the unwrap panics.
find_match(t, size, value, is_used, checks) ==
    IF size > MAX_SIZE
    THEN [res |-> "WrongSize", idx |-> 0]
    ELSE LET level == get_level(t, size)
         IN IF level < 1
            THEN IF checks \/ level < 0
                 THEN [res |-> "Panic", idx |-> 0]
                 ELSE [res |-> "NotFound", idx |-> 0]
            ELSE LET max_idx == get_index(level + 1)
                     f == find(t, size, is_used)
                 IN IF f.res # "Ok"
                    THEN [res |-> "Panic", idx |-> 0]
                    ELSE match_loop(t, f.idx, max_idx, value)

\* ------------------------------------------------------------------------
\* BuddyAllocator (buddy_allocator.rs)
\* ------------------------------------------------------------------------
\* while idx < max_idx && !is_align!(addr, align_size) { idx += 1; ... }
RECURSIVE align_scan(_, _, _, _)
align_scan(t, idx, max_idx, align_size) ==
    IF idx < max_idx /\ ~is_align(get_value(t, idx), align_size)
    THEN align_scan(t, idx + 1, max_idx, align_size)
    ELSE idx

\* (an allocate that marks the subtree before it has checked the leaves)
allocate_early_commit(t, pc, size, align_size) ==
    LET mem_size == align_up(size, PAGE_SIZE)
        err(e) == [res |-> e, val |-> 0, tree |-> t, pc |-> pc]
    IN IF pc = 0
       THEN err("None")
       ELSE LET counts == size \div PAGE_SIZE
            IN IF counts > pc
               THEN err("NotEnough")
               ELSE LET f == find(t, mem_size, FALSE)
                    IN IF f.res = "Overflow"
                       THEN err("Panic")
                       ELSE IF f.res # "Ok"
                       THEN err(f.res)
                       ELSE LET max_idx == get_index(get_level(t, size))
                                idx == align_scan(t, f.idx, max_idx, align_size)
                                addr == get_value(t, idx)
                            IN IF idx # max_idx
                               THEN LET left_leaf == left_leaf_of(t, idx)
                                        t1 == use_mem(t, idx)
                                    IN IF can_use(t, left_leaf, counts)
                                       THEN [res |-> "Ok", val |-> addr,
                                             tree |-> t1, pc |-> pc - counts]
                                       ELSE [res |-> "NotFound", val |-> 0,
                                             tree |-> t1, pc |-> pc]
                               ELSE err("NotFound")

\* (an allocate without the test of the free-page counter against 0)
allocate_unguarded(t, pc, size, align_size) ==
    LET mem_size == align_up(size, PAGE_SIZE)
        err(e) == [res |-> e, val |-> 0, tree |-> t, pc |-> pc]
        counts == size \div PAGE_SIZE
    IN IF counts > pc
       THEN err("NotEnough")
       ELSE LET f == find(t, mem_size, FALSE)
            IN IF f.res = "Overflow"
               THEN err("Panic")
               ELSE IF f.res # "Ok"
               THEN err(f.res)
               ELSE LET max_idx == get_index(get_level(t, size))
                        idx == align_scan(t, f.idx, max_idx, align_size)
                        addr == get_value(t, idx)
                    IN IF idx # max_idx /\ can_use(t, left_leaf_of(t, idx), counts)
                       THEN [res |-> "Ok", val |-> addr,
                             tree |-> use_mem(t, idx), pc |-> pc - counts]
                       ELSE err("NotFound")

\* the result, the tree and the free-page counter after allocate(layout)
allocate(t, pc, size, align_size) ==
    LET mem_size == align_up(size, PAGE_SIZE)
        err(e) == [res |-> e, val |-> 0, tree |-> t, pc |-> pc]
    IN IF pc = 0
       THEN err("None")
       ELSE LET counts == size \div PAGE_SIZE
            IN IF counts > pc
               THEN err("NotEnough")
               ELSE LET f == find(t, mem_size, FALSE)
                    IN IF f.res = "Overflow"
                       THEN err("Panic")
                       ELSE IF f.res # "Ok"
                       THEN err(f.res)
                       ELSE LET max_idx == get_index(get_level(t, size))
                                idx == align_scan(t, f.idx, max_idx, align_size)
                                addr == get_value(t, idx)
                            IN IF idx # max_idx
                               THEN LET left_leaf == left_leaf_of(t, idx)
                                    IN IF can_use(t, left_leaf, counts)
                                       THEN [res |-> "Ok", val |-> addr,
                                             tree |-> use_mem(t, idx),
                                             pc |-> pc - counts]
                                       ELSE err("NotFound")
                               ELSE err("NotFound")

\* the result, the tree and the free-page counter after deallocate(addr, size)
deallocate(t, pc, addr, size, checks) ==
    LET err(e) == [res |-> e, val |-> 0, tree |-> t, pc |-> pc]
    IN IF is_align(addr, PAGE_SIZE)
       THEN IF is_align(size, PAGE_SIZE)
            THEN LET m == find_match(t, size, addr, TRUE, checks)
                 IN IF m.res # "Ok"
                    THEN err(m.res)
                    ELSE [res |-> "Ok", val |-> m.idx,
                          tree |-> unuse_mem(t, m.idx), pc |-> pc]
            ELSE err("WrongAddr")
       ELSE err("WrongSize")

\* the first `used` leaves are the allocator's own pages
RECURSIVE use_pages(_, _, _)
use_pages(t, index, used) ==
    IF used = 0 THEN t
    ELSE use_page(use_pages(t, index, used - 1), index + used - 1)

\* the zone, the tree and the counter after init(bottom, top), or a panic
\* with the fields as they are when it strikes; size_of_bintree is
\* size_of::<BinTree>()
buddy_init_sized(t, bottom, top, checks, size_of_bintree) ==
    LET start == align_up(bottom, PAGE_SIZE)
        end == align_down(top, PAGE_SIZE)
        page_counts == (end - start) \div PAGE_SIZE
        panic == [res |-> "Panic", zone |-> 0, tree |-> t, counts |-> 0, pc |-> 0]
    IN IF page_counts > MAX_PAGES
       THEN panic
       ELSE IF page_counts < size_of_bintree \div PAGE_SIZE
       THEN panic
       ELSE LET r == BinTree_init(t, start, PAGE_SIZE * page_counts)
            IN IF r.res # "Ok"
               THEN [panic EXCEPT !.zone = start, !.pc = page_counts]
               ELSE LET used == align_up(size_of_bintree, PAGE_SIZE) \div PAGE_SIZE
                        index == get_index(r.tree.level)
                        t1 == use_pages(r.tree, index, used)
                    IN IF r.val < used /\ checks
                       THEN [panic EXCEPT !.zone = start, !.tree = t1,
                                          !.counts = r.val, !.pc = page_counts]
                       ELSE [res |-> "Ok", zone |-> start, tree |-> t1,
                             counts |-> r.val,
                             pc |-> (r.val - used) % Pow2(USIZE_BITS)]

buddy_init(t, bottom, top, checks) ==
    buddy_init_sized(t, bottom, top, checks, SIZE_OF_BINTREE)

\* ------------------------------------------------------------------------
\* The state machine
\* ------------------------------------------------------------------------
VARIABLES
    phase,        \* "new" after new(), "ready" after init, "panicked"
    zone,         \* BuddyAllocator.zone: address of the tree, 0 = null
    tree,         \* the BinTree at *zone (the zeroed arena before init)
    page_counts,  \* BuddyAllocator.page_counts
    live,         \* bag of <<address, size>> returned and not yet released
    arena_pages,  \* the leaf count BinTree::init returned to init (0 before)
    last          \* the last call and its result; the arguments of a
                  \* deallocate

vars == <<phase, zone, tree, page_counts, live, arena_pages, last>>

\* inputs ------------------------------------------------------------------
\* the arena starts one byte past a multiple of MAX_SIZE: its first whole
\* page is page-aligned and no more
Bottoms == {MAX_SIZE + 1}
Sizes == {p * PAGE_SIZE : p \in 0..MaxReqPages}
         \cup {PAGE_SIZE \div 2, PAGE_SIZE + PAGE_SIZE \div 2}
Aligns == {PAGE_SIZE * Pow2(k) : k \in 0..MaxAlignShift}
Addrs == {zone + p * PAGE_SIZE : p \in 0..MAX_PAGES} \cup {zone + 1}

NoCall == [op |-> "new", res |-> "Ok", val |-> 0, addr |-> 0, size |-> 0]

Init ==
    /\ phase = "new"
    /\ zone = 0
    /\ tree = BinTree_new
    /\ page_counts = 0
    /\ live = EmptyBag
    /\ arena_pages = 0
    /\ last = NoCall

BuddyInit ==
    /\ phase = "new"
    /\ \E bottom \in Bottoms, k \in 0..MaxArenaPages, r \in {0, PAGE_SIZE - 1},
          checks \in BOOLEAN :
        LET top == align_up(bottom, PAGE_SIZE) + k * PAGE_SIZE + r
            i == buddy_init(tree, bottom, top, checks)
        IN /\ phase' = IF i.res = "Ok" THEN "ready" ELSE "panicked"
           /\ zone' = i.zone
           /\ tree' = i.tree
           /\ page_counts' = i.pc
           /\ arena_pages' = i.counts
           /\ last' = [NoCall EXCEPT !.op = "init", !.res = i.res]
    /\ UNCHANGED live

Allocate ==
    /\ phase \in {"new", "ready"}
    /\ \E size \in Sizes, align_size \in Aligns :
        LET a == allocate(tree, page_counts, size, align_size)
        IN /\ a.res = "Ok" => BagCardinality(live) < MaxLive
           /\ phase' = IF a.res = "Panic" THEN "panicked" ELSE phase
           /\ tree' = a.tree
           /\ page_counts' = a.pc
           /\ live' = IF a.res = "Ok"
                      THEN live (+) SetToBag({<<a.val, size>>})
                      ELSE live
           /\ last' = [NoCall EXCEPT !.op = "allocate", !.res = a.res,
                                      !.val = a.val]
    /\ UNCHANGED <<zone, arena_pages>>

\* the caller releases a block it holds, with the size it asked for
\* (deallocate on a new allocator dereferences the null zone: left out)
Deallocate ==
    /\ phase = "ready"
    /\ \E b \in BagToSet(live), checks \in BOOLEAN :
        LET addr == b[1]
            size == b[2]
            d == deallocate(tree, page_counts, addr, size, checks)
        IN /\ phase' = IF d.res = "Panic" THEN "panicked" ELSE phase
           /\ tree' = d.tree
           /\ page_counts' = d.pc
           /\ live' = IF d.res = "Ok"
                      THEN live (-) SetToBag({<<addr, size>>})
                      ELSE live
           /\ last' = [op |-> "deallocate", res |-> d.res, val |-> d.val,
                       addr |-> addr, size |-> size]
    /\ UNCHANGED <<zone, arena_pages>>

Next == BuddyInit \/ Allocate \/ Deallocate

Spec == Init /\ [][Next]_vars

\* ------------------------------------------------------------------------
\* The tree on its own: BinTree::new, init, then its public operations
\* ------------------------------------------------------------------------
\* inputs: one page-aligned root; sizes of whole pages and of pages and a
\* half; for find also a size past the tree and one past MAX_SIZE
TreeRoots == {2 * MAX_SIZE}
TreeInitSizes == {p * MIN_SIZE + r : p \in 0..MaxTreePages, r \in {0, MIN_SIZE \div 2}}
FindSizes == {p * MIN_SIZE : p \in 0..(MaxTreePages + 1)}
             \cup {MIN_SIZE \div 2, MIN_SIZE + MIN_SIZE \div 2, MAX_SIZE + MIN_SIZE}

\* nodes of the tree as initialized
TreeNodes(t) == 0..max_node(t)

TreeStart ==
    /\ phase = "tree_new"
    /\ zone = 0
    /\ tree = BinTree_new
    /\ page_counts = 0
    /\ live = EmptyBag
    /\ arena_pages = 0
    /\ last = NoCall

\* tree.init(root, size); zone keeps the root, arena_pages the returned count
TreeInit ==
    /\ phase = "tree_new"
    /\ \E root \in TreeRoots, size \in TreeInitSizes :
        LET r == BinTree_init(tree, root, size)
        IN /\ phase' = IF r.res = "Ok" THEN "tree" ELSE "tree_failed"
           /\ zone' = root
           /\ tree' = r.tree
           /\ arena_pages' = r.val
           /\ last' = [op |-> "tree_init", res |-> r.res, val |-> r.val,
                       addr |-> root, size |-> size]
    /\ UNCHANGED <<page_counts, live>>

TreeUsePage ==
    /\ phase = "tree"
    /\ \E idx \in TreeNodes(tree) :
        /\ tree' = use_page(tree, idx)
        /\ last' = [NoCall EXCEPT !.op = "use_page", !.val = idx]
    /\ UNCHANGED <<phase, zone, page_counts, live, arena_pages>>

TreeUnusePage ==
    /\ phase = "tree"
    /\ \E idx \in TreeNodes(tree) :
        /\ tree' = unuse_page(tree, idx)
        /\ last' = [NoCall EXCEPT !.op = "unuse_page", !.val = idx]
    /\ UNCHANGED <<phase, zone, page_counts, live, arena_pages>>

TreeUseMem ==
    /\ phase = "tree"
    /\ \E idx \in TreeNodes(tree) :
        /\ tree' = use_mem(tree, idx)
        /\ last' = [NoCall EXCEPT !.op = "use_mem", !.val = idx]
    /\ UNCHANGED <<phase, zone, page_counts, live, arena_pages>>

TreeUnuseMem ==
    /\ phase = "tree"
    /\ \E idx \in TreeNodes(tree) :
        /\ tree' = unuse_mem(tree, idx)
        /\ last' = [NoCall EXCEPT !.op = "unuse_mem", !.val = idx]
    /\ UNCHANGED <<phase, zone, page_counts, live, arena_pages>>

\* tree.find(size, is_used); last.addr keeps the flag (1 = is_used)
TreeFind ==
    /\ phase = "tree"
    /\ \E size \in FindSizes, is_used \in BOOLEAN :
        LET f == find(tree, size, is_used)
        IN /\ phase' = IF f.res = "Overflow" THEN "panicked" ELSE phase
           /\ last' = [op |-> "find", res |-> f.res, val |-> f.idx,
                       addr |-> IF is_used THEN 1 ELSE 0, size |-> size]
    /\ UNCHANGED <<zone, tree, page_counts, live, arena_pages>>

TreeNext ==
    \/ TreeInit
    \/ TreeUsePage
    \/ TreeUnusePage
    \/ TreeUseMem
    \/ TreeUnuseMem
    \/ TreeFind

TreeSpec == TreeStart /\ [][TreeNext]_vars

\* ------------------------------------------------------------------------
\* Vocabulary of the claims
\* ------------------------------------------------------------------------
Ready == phase = "ready"

\* pages a request of `size` bytes needs: size rounded up to whole pages
PagesOf(size) == align_up(size, PAGE_SIZE) \div PAGE_SIZE

\* pages of metadata at the front of the arena
MetaPages == align_up(SIZE_OF_BINTREE, PAGE_SIZE) \div PAGE_SIZE

\* flat index of the leaf at leaf-position p
LeafIdx(p) == get_index(tree.level) + p

\* leaf-positions of the rounded tree, and those beyond the real arena
LeafCount == Pow2(tree.level - 1)
PaddingPos == arena_pages..(LeafCount - 1)

\* leaf-positions touched by the bytes [addr, addr + size)
PosOf(addr, size) ==
    {p \in 0..(LeafCount - 1) :
        /\ addr < zone + (p + 1) * PAGE_SIZE
        /\ zone + p * PAGE_SIZE < addr + size}

\* two blocks <<address, size>> share a byte
Overlap(b1, b2) ==
    /\ b1[2] > 0 /\ b2[2] > 0
    /\ b1[1] < b2[1] + b2[2]
    /\ b2[1] < b1[1] + b1[2]

RECURSIVE SumPages(_)
SumPages(B) ==
    IF B = {} THEN 0
    ELSE LET b == CHOOSE x \in B : TRUE
         IN CopiesIn(b, live) * PagesOf(b[2]) + SumPages(B \ {b})

\* ------------------------------------------------------------------------
\* Claims
\* ------------------------------------------------------------------------
\* C1: any two live blocks have disjoint address ranges
\* [address, address + size), whatever sizes and alignments were requested.
C1_NonOverlap ==
    Ready =>
        \A b1, b2 \in BagToSet(live) :
            (b1 # b2 \/ CopiesIn(b1, live) >= 2) => ~Overlap(b1, b2)

\* C2: the free-page counter equals the usable pages set up by init (true
\* leaf count minus metadata pages) minus the pages of the live blocks.
C2_CapacityConservation ==
    Ready =>
        page_counts = (arena_pages - MetaPages) - SumPages(BagToSet(live))

\* C3: from any reachable state, allocate of a page-aligned size followed at
\* once by deallocate of the returned address and that size succeeds and
\* leaves the free-page counter where it was before the allocate.
C3_RoundTrip ==
    Ready =>
        \A size \in Sizes, align_size \in Aligns, checks \in BOOLEAN :
            LET a == allocate(tree, page_counts, size, align_size)
                d == deallocate(a.tree, a.pc, a.val, size, checks)
            IN (is_align(size, PAGE_SIZE) /\ a.res = "Ok") =>
                   (d.res = "Ok" /\ d.pc = page_counts)

\* C4: every address a successful allocate returns is a multiple of the
\* requested alignment.
C4_Alignment ==
    Ready =>
        \A size \in Sizes, align_size \in Aligns :
            LET a == allocate(tree, page_counts, size, align_size)
            IN a.res = "Ok" => is_align(a.val, align_size)

\* C5, first part: the leaves beyond the true page count stay marked used.
C5_PaddingStaysUsed ==
    Ready => \A p \in PaddingPos : tree.bitmap[LeafIdx(p)]

\* C5, second part: find(size, false) never returns a padding leaf.
C5_PaddingNotFound ==
    Ready =>
        \A size \in Sizes :
            LET f == find(tree, size, FALSE)
            IN ~(f.res = "Ok" /\ f.idx \in {LeafIdx(p) : p \in PaddingPos})

\* C5, third part: no successful allocate returns a block that contains a
\* padding leaf.
C5_PaddingNotAllocated ==
    Ready =>
        \A size \in Sizes, align_size \in Aligns :
            LET a == allocate(tree, page_counts, size, align_size)
            IN a.res = "Ok" => PosOf(a.val, size) \cap PaddingPos = {}

\* C5 (whole): padding leaves stay used, are not found and are not part of
\* any block handed out.
C5_PaddingNeverHandedOut ==
    /\ C5_PaddingStaysUsed
    /\ C5_PaddingNotFound
    /\ C5_PaddingNotAllocated

\* leaf-positions of the metadata pages, and their bits in a tree
MetaPos == 0..(MetaPages - 1)

C6_MetaUsed(t) == \A p \in MetaPos : t.bitmap[LeafIdx(p)]

\* C6: the leaf bits of the metadata pages stay used whatever allocate and
\* deallocate calls are made, with any arguments, and allocate never returns
\* a block that contains one of those pages.
C6_MetadataReserved ==
    Ready =>
        /\ C6_MetaUsed(tree)
        /\ \A size \in Sizes, align_size \in Aligns :
               LET a == allocate(tree, page_counts, size, align_size)
               IN /\ C6_MetaUsed(a.tree)
                  /\ a.res = "Ok" => PosOf(a.val, size) \cap MetaPos = {}
        /\ \A addr \in Addrs, size \in Sizes, checks \in BOOLEAN :
               C6_MetaUsed(deallocate(tree, page_counts, addr, size, checks).tree)

\* C7: from any reachable state, if allocate(size, alignment) returns A and
\* deallocate(A, size) then succeeds, the next allocate(size, alignment)
\* succeeds and returns A again.
C7_DeterministicReuse ==
    Ready =>
        \A size \in Sizes, align_size \in Aligns, checks \in BOOLEAN :
            LET a == allocate(tree, page_counts, size, align_size)
                d == deallocate(a.tree, a.pc, a.val, size, checks)
                a2 == allocate(d.tree, d.pc, size, align_size)
            IN (a.res = "Ok" /\ d.res = "Ok") =>
                   (a2.res = "Ok" /\ a2.val = a.val)

\* C8 (as claimed): a successful deallocate(address, size) returns the new
\* free-page count, the counter incremented by size / PAGE_SIZE.
C8_ReturnsFreeCount ==
    Ready =>
        \A b \in BagToSet(live), checks \in BOOLEAN :
            LET d == deallocate(tree, page_counts, b[1], b[2], checks)
            IN d.res = "Ok" =>
                   /\ d.pc = page_counts + b[2] \div PAGE_SIZE
                   /\ d.val = d.pc

\* C8 (amended): a successful deallocate(address, size) returns the flat
\* index of the node it released: the node of the level of `size` whose
\* recorded address is `address`.
C8_ReturnsNodeIndex ==
    (Ready /\ last.op = "deallocate" /\ last.res = "Ok") =>
        LET level == get_level(tree, last.size)
        IN /\ last.val >= get_index(level)
           /\ last.val < get_index(level + 1)
           /\ get_value(tree, last.val) = last.addr

\* a block of two whole pages has been released: the call returned the
\* index of its node on the level above the leaves
C8_Witness ==
    /\ Ready /\ last.op = "deallocate" /\ last.res = "Ok"
    /\ last.size = 2 * PAGE_SIZE
    /\ last.val >= get_index(tree.level - 1)
    /\ last.val < get_index(tree.level)
    /\ last.val # page_counts

\* C9: deallocate answers WrongAddr to an address that is no multiple of
\* PAGE_SIZE, and WrongSize to a page-aligned address with a size that is
\* no multiple of PAGE_SIZE.
C9_MisalignedErrors ==
    Ready =>
        \A addr \in Addrs, size \in Sizes, checks \in BOOLEAN :
            LET d == deallocate(tree, page_counts, addr, size, checks)
            IN /\ ~is_align(addr, PAGE_SIZE) => d.res = "WrongAddr"
               /\ (is_align(addr, PAGE_SIZE) /\ ~is_align(size, PAGE_SIZE))
                      => d.res = "WrongSize"

\* C10: allocate answers None when the free-page counter is 0, NotEnough when
\* the size rounded up to whole pages exceeds the counter, and never
\* succeeds in claiming more pages than the counter reports free.
C10_CapacityErrors ==
    Ready =>
        \A size \in Sizes, align_size \in Aligns :
            LET a == allocate(tree, page_counts, size, align_size)
            IN /\ page_counts = 0 => a.res = "None"
               /\ (page_counts > 0 /\ PagesOf(size) > page_counts)
                      => a.res = "NotEnough"
               /\ a.res = "Ok" => PagesOf(size) <= page_counts

\* the error kinds allocate and deallocate return (BuddyErr)
BuddyErrs == {"None", "NotEnough", "NotFound", "WrongSize", "WrongAddr"}

\* whole-page sizes among the requested sizes
PageSizes == {size \in Sizes : is_align(size, PAGE_SIZE)}

\* C11: deallocate of a page-aligned (address, size) that is no live block
\* of that size at that address returns an error and clears no bitmap bit.
C11_OnlyLiveReleased ==
    Ready =>
        \A addr \in Addrs, size \in PageSizes, checks \in BOOLEAN :
            LET d == deallocate(tree, page_counts, addr, size, checks)
            IN (is_align(addr, PAGE_SIZE) /\ <<addr, size>> \notin BagToSet(live)) =>
                   /\ d.res \in BuddyErrs
                   /\ \A i \in NodeIdx : tree.bitmap[i] => d.tree.bitmap[i]


\* C12: whenever allocate or deallocate returns an error, the bitmap, the
\* node-address array and the free-page counter are as before the call:
\* for every call made (allocate with any size and alignment, deallocate of
\* a live block), and for deallocate with any other address and size.  The
\* latter is stated for the build without overflow checks, which returns
\* every error the build with them returns.
C12_ErrorAtomicity ==
    /\ [][(last'.op \in {"allocate", "deallocate"} /\ last'.res \in BuddyErrs)
              => (tree' = tree /\ page_counts' = page_counts)]_vars
    /\ [](Ready =>
             \A addr \in Addrs, size \in Sizes :
                 LET d == deallocate(tree, page_counts, addr, size, FALSE)
                 IN d.res \in BuddyErrs =>
                        (d.tree = tree /\ d.pc = page_counts))

\* an allocate has been refused with NotFound while a block is live: the
\* candidate passed the search and failed the check of its leaves
C12_Witness ==
    /\ Ready /\ last.op = "allocate" /\ last.res = "NotFound"
    /\ live # EmptyBag
    /\ page_counts > 0

\* C13: on an allocator made by new() on which init has not completed, every
\* allocate call returns an error and no address is ever handed out.
C13_InitBeforeUse ==
    (phase = "new" \/ (phase = "panicked" /\ last.op = "init")) =>
        /\ live = EmptyBag
        /\ \A size \in Sizes, align_size \in Aligns :
               allocate(tree, page_counts, size, align_size).res \in BuddyErrs

\* allocate has been called on the new allocator and has been refused
C13_Witness ==
    /\ phase = "new" /\ zone = 0
    /\ last.op = "allocate" /\ last.res = "None"

\* C14: BinTree::init(root, size) returns NotEnough exactly when
\* floor(size / MIN_SIZE) = 0, and otherwise succeeds and returns the true
\* leaf count floor(size / MIN_SIZE), not the count rounded to a power of two.
C14_InitResult ==
    last.op = "tree_init" =>
        /\ last.res \in {"Ok", "NotEnough"}
        /\ last.res = "NotEnough" <=> last.size \div MIN_SIZE = 0
        /\ last.res = "Ok" => last.val = last.size \div MIN_SIZE
        /\ arena_pages = last.val

\* init over three pages and a half: the tree is rounded to four leaves and
\* the call returned three
C14_Witness ==
    /\ phase = "tree" /\ last.op = "tree_init" /\ last.res = "Ok"
    /\ last.size = 3 * MIN_SIZE + MIN_SIZE \div 2
    /\ last.val = 3
    /\ Pow2(tree.level - 1) = 4

\* the find call recorded in `last`: its flag, the level of its size, the
\* candidates of that level and those that pass the check of find (own bit
\* equal to the flag, the run of size / MIN_SIZE leaves all free or all used)
FindFlag == last.addr = 1
FindLevel == get_level(tree, last.size)
FindCandidates == get_index(FindLevel)..(get_index(FindLevel + 1) - 1)
FindPassing == {idx \in FindCandidates : find_check(tree, last.size, FindFlag, idx)}

\* a find on an initialized tree with a size that has a level in the tree
FindCalled ==
    /\ last.op = "find"
    /\ last.size <= MAX_SIZE
    /\ FindLevel >= 1

\* C15: if no node of the level of `size` passes the check, find returns
\* NotFound; any index find returns passes the check.
C15_FindReportsAbsence ==
    FindCalled =>
        /\ FindPassing = {} => last.res = "NotFound"
        /\ last.res = "Ok" => last.val \in FindPassing

\* the least element of a non-empty set of indices
MinOf(S) == CHOOSE x \in S : \A y \in S : x <= y

\* C16: whenever a node of the level of `size` passes the check, find
\* returns the lowest index among the passing nodes of that level.
C16_FirstFit ==
    (FindCalled /\ FindPassing # {}) =>
        /\ last.res = "Ok"
        /\ last.val = MinOf(FindPassing)

\* find(MIN_SIZE, false) on four leaves with the first leaf used and the
\* next two free returned the second leaf, not the last of the level
C16_Witness ==
    /\ FindCalled /\ last.res = "Ok" /\ ~FindFlag
    /\ last.size = MIN_SIZE
    /\ tree.level = 3
    /\ tree.bitmap[3] /\ ~tree.bitmap[4] /\ ~tree.bitmap[5]
    /\ last.val = 4

\* node i lies in the subtree rooted at idx: it is idx or a descendant
RECURSIVE InSubtree(_, _)
InSubtree(i, idx) ==
    IF i = idx THEN TRUE
    ELSE IF i < idx \/ i = 0 THEN FALSE
    ELSE InSubtree(find_parent(i), idx)

\* the bitmap with the subtree of idx set to v and every other bit kept
SubtreeSet(bm, idx, v) ==
    [i \in DOMAIN bm |->
        IF i \in TreeNodes(tree) /\ InSubtree(i, idx) THEN v ELSE bm[i]]

\* C17: use_mem(index) sets to used, and unuse_mem(index) sets to free, the
\* bit of node index and of every descendant down to the leaves, and leaves
\* every other bit and the node-address array unchanged.
C17_SubtreeMarkingExact ==
    phase = "tree" =>
        \A idx \in TreeNodes(tree) :
            LET u == use_mem(tree, idx)
                f == unuse_mem(tree, idx)
            IN /\ u.bitmap = SubtreeSet(tree.bitmap, idx, TRUE)
               /\ f.bitmap = SubtreeSet(tree.bitmap, idx, FALSE)
               /\ u.nodes = tree.nodes /\ u.level = tree.level
               /\ f.nodes = tree.nodes /\ f.level = tree.level

\* use_mem(1) on four leaves: node 1 and its two leaves are used, the root,
\* node 2 and the first leaf of node 2 are still free
C17_Witness ==
    /\ phase = "tree" /\ last.op = "use_mem" /\ last.val = 1
    /\ tree.level = 3
    /\ tree.bitmap[1] /\ tree.bitmap[3] /\ tree.bitmap[4]
    /\ ~tree.bitmap[0] /\ ~tree.bitmap[2] /\ ~tree.bitmap[5]

\* the least power of two that is at least n
RoundedLeaves(n) ==
    CHOOSE x \in {Pow2(k) : k \in 0..USIZE_BITS} :
        /\ x >= n
        /\ \A k \in 0..USIZE_BITS : Pow2(k) >= n => x <= Pow2(k)

\* C18: after BinTree::init(root, size) succeeds on a fresh tree with
\* rounded leaf count N: level = log2(N) + 1; nodes[] holds the 2N-1 nodes
\* breadth-first, the j-th node of level L at root + j * (rounded size /
\* 2^(L-1)), so that an internal node starts where its left child starts
\* and its right child starts half its block further; every node is free
\* except the padding leaves; every bitmap index beyond 2N-2 is used.
C18_TreeLayout ==
    (last.op = "tree_init" /\ last.res = "Ok") =>
        LET N == RoundedLeaves(arena_pages)
            rounded_size == N * MIN_SIZE
            block(L) == rounded_size \div Pow2(L - 1)
        IN /\ Pow2(tree.level - 1) = N
           /\ max_node(tree) = 2 * N - 2
           /\ \A L \in 1..tree.level : \A j \in 0..(Pow2(L - 1) - 1) :
                  /\ get_value(tree, get_index(L) + j) = zone + j * block(L)
                  /\ L < tree.level =>
                         LET i == get_index(L) + j
                         IN /\ get_value(tree, find_left_child(i))
                                   = get_value(tree, i)
                            /\ get_value(tree, find_right_child(i))
                                   = get_value(tree, i) + block(L + 1)
                            /\ block(L) = 2 * block(L + 1)
           /\ \A i \in NodeIdx :
                  tree.bitmap[i] <=>
                      \/ i > 2 * N - 2
                      \/ i >= get_index(tree.level) + arena_pages

\* init over three pages: four leaves, the last one padding and used, the
\* third one free, node 2 half the rounded size past the root
C18_Witness ==
    /\ last.op = "tree_init" /\ last.res = "Ok"
    /\ arena_pages = 3 /\ tree.level = 3
    /\ tree.bitmap[6] /\ ~tree.bitmap[5]
    /\ get_value(tree, 2) = zone + 2 * MIN_SIZE

BinTreeSizes == {SIZE_OF_BINTREE, SIZE_OF_BINTREE - PAGE_SIZE \div 2}

AllocateSearches(size) ==
    /\ page_counts # 0
    /\ size \div PAGE_SIZE <= page_counts

\* C21, allocate: the levels get_level computes are levels of the tree and
\* the indices read and written are nodes of the tree.
C21_AllocateSafe ==
    Ready =>
        \A size \in Sizes, align_size \in Aligns :
            (size <= MAX_SIZE /\ AllocateSearches(size)) =>
                LET mem_size == align_up(size, PAGE_SIZE)
                    f == find(tree, mem_size, FALSE)
                    max_idx == get_index(get_level(tree, size))
                    idx == align_scan(tree, f.idx, max_idx, align_size)
                IN /\ get_level(tree, mem_size) \in 1..tree.level
                   /\ get_level(tree, size) \in 1..tree.level
                   /\ f.res = "Ok" =>
                          /\ f.idx \in TreeNodes(tree)
                          /\ idx \in TreeNodes(tree)
                          /\ left_leaf_of(tree, idx) + size \div PAGE_SIZE - 1
                                 <= max_node(tree)
                   /\ allocate(tree, page_counts, size, align_size).res # "Panic"

\* C21, deallocate: the level get_level computes is a level of the tree,
\* nothing underflows and the index released is a node of the tree.
C21_DeallocateSafe ==
    Ready =>
        \A addr \in Addrs, size \in Sizes, checks \in BOOLEAN :
            (size <= MAX_SIZE /\ is_align(addr, PAGE_SIZE)
                 /\ is_align(size, PAGE_SIZE)) =>
                LET d == deallocate(tree, page_counts, addr, size, checks)
                IN /\ get_level(tree, size) \in 1..tree.level
                   /\ d.res # "Panic"
                   /\ d.res = "Ok" => d.val \in TreeNodes(tree)

\* C21: for every allocate(size, alignment) and deallocate(address, size)
\* with size <= MAX_SIZE on an initialized allocator, sizes larger than the
\* arena included, the level get_level computes stays in 1..level, every
\* node and bitmap index stays in 0..max_node() and no unsigned subtraction
\* underflows.
C21_ArithmeticSafety ==
    /\ C21_AllocateSafe
    /\ C21_DeallocateSafe

====
